---- MODULE Spec2Model ----
(***************************************************************************)
(* Model of scripts/delete_deployments.py: the bulk deletion of Convex     *)
(* deployments (parse_args, load_token, list_deployments, should_keep,     *)
(* confirm_or_exit and main).                                              *)
(*                                                                         *)
(* Python strings are sequences of one-character strings, so that          *)
(* str.strip, str.lower and the regular-expression search act on the       *)
(* characters.  An optional string (str | None) is a record                *)
(* [some, s]; a JSON value is a record [t, b, n, s] tagged by its type.    *)
(***************************************************************************)
EXTENDS Integers, Sequences, FiniteSets, TLC

(***************************************************************************)
(* Strings                                                                 *)
(***************************************************************************)
Whitespace == {" ", "\t"}

UpperCase == <<"A", "B", "C", "D", "E", "F", "G", "H", "I", "J", "K", "L", "M",
               "N", "O", "P", "Q", "R", "S", "T", "U", "V", "W", "X", "Y", "Z">>
LowerCase == <<"a", "b", "c", "d", "e", "f", "g", "h", "i", "j", "k", "l", "m",
               "n", "o", "p", "q", "r", "s", "t", "u", "v", "w", "x", "y", "z">>

\* str.lower() on one character
LowerChar(c) ==
    IF \E i \in 1..Len(UpperCase) : UpperCase[i] = c
    THEN LowerCase[CHOOSE i \in 1..Len(UpperCase) : UpperCase[i] = c]
    ELSE c

\* str.lower()
Lower(s) == [i \in 1..Len(s) |-> LowerChar(s[i])]

RECURSIVE LStrip(_)
LStrip(s) ==
    IF s = <<>> THEN <<>>
    ELSE IF Head(s) \in Whitespace THEN LStrip(Tail(s))
    ELSE s

RECURSIVE RStrip(_)
RStrip(s) ==
    IF s = <<>> THEN <<>>
    ELSE IF s[Len(s)] \in Whitespace THEN RStrip(SubSeq(s, 1, Len(s) - 1))
    ELSE s

\* str.strip(): drops the leading and the trailing whitespace only
Strip(s) == RStrip(LStrip(s))

\* str | None
None == [some |-> FALSE, s |-> <<>>]
Some(s) == [some |-> TRUE, s |-> s]
\* truthiness of a str | None: None and "" are falsy
Truthy(o) == o.some /\ Len(o.s) > 0

\* the literal texts of the program
Preview == <<"p", "r", "e", "v", "i", "e", "w">>
Dev == <<"d", "e", "v">>
Prod == <<"p", "r", "o", "d">>
DELETE == <<"D", "E", "L", "E", "T", "E">>

(***************************************************************************)
(* JSON values as json.loads returns them                                  *)
(***************************************************************************)
JMissing == [t |-> "missing", b |-> FALSE, n |-> 0, s |-> <<>>]
JNull == [t |-> "null", b |-> FALSE, n |-> 0, s |-> <<>>]
JBool(b) == [t |-> "bool", b |-> b, n |-> 0, s |-> <<>>]
JNum(n) == [t |-> "num", b |-> FALSE, n |-> n, s |-> <<>>]
JStr(s) == [t |-> "str", b |-> FALSE, n |-> 0, s |-> s]

\* a JSON object with the four keys the program reads (a key may be missing)
JObject(name, deploymentType, region, isDefault) ==
    [isDict |-> TRUE, name |-> name, deploymentType |-> deploymentType,
     region |-> region, isDefault |-> isDefault]
\* an element of the listing that is not a JSON object (a number, a string, null)
JNonObject ==
    [isDict |-> FALSE, name |-> JMissing, deploymentType |-> JMissing,
     region |-> JMissing, isDefault |-> JMissing]

\* dict.get(key): None when the key is missing
Get(v) == IF v.t = "missing" THEN JNull ELSE v
\* isinstance(v, str)
IsStr(v) == v.t = "str"
\* bool(v): Python truthiness
Bool(v) ==
    CASE v.t = "bool" -> v.b
      [] v.t = "num" -> v.n # 0
      [] v.t = "str" -> Len(v.s) > 0
      [] OTHER -> FALSE

(***************************************************************************)
(* parse_args: --type                                                      *)
(***************************************************************************)
Allowed == {Preview, Dev, Prod}

RECURSIVE NormalizeLoop(_, _)
NormalizeLoop(raw_types, normalized) ==
    IF raw_types = <<>> THEN [ok |-> TRUE, types |-> normalized]
    ELSE LET deployment_type == Lower(Strip(Head(raw_types)))
         IN  IF deployment_type \notin Allowed
             THEN [ok |-> FALSE, types |-> {}]
             ELSE NormalizeLoop(Tail(raw_types), normalized \cup {deployment_type})

\* normalize_types without the check against the allowed types
normalize_types_AcceptsAny(raw_types) ==
    IF raw_types = <<>> THEN [ok |-> TRUE, types |-> {Preview}]
    ELSE [ok |-> TRUE,
          types |-> {Lower(Strip(raw_types[k])) : k \in 1..Len(raw_types)}]

\* normalize_types: raw_types is the list argparse collected (<<>> when the
\* flag was never given, argparse's None); ok = FALSE is the SystemExit
normalize_types(raw_types) ==
    IF raw_types = <<>> THEN [ok |-> TRUE, types |-> {Preview}]
    ELSE NormalizeLoop(raw_types, {})

(***************************************************************************)
(* load_token                                                              *)
(***************************************************************************)
\* the states of ~/.convex/config.json
ConfigFiles == {"absent", "bad_json", "no_access_token", "non_string_token", "has_token"}
FileToken == <<"k">>

\* load_token: ok = FALSE is one of its three SystemExit
load_token(cli_token, env_token, config_file) ==
    IF Truthy(cli_token) THEN [ok |-> TRUE, token |-> cli_token.s]
    ELSE IF Truthy(env_token) THEN [ok |-> TRUE, token |-> env_token.s]
    ELSE IF config_file = "has_token" THEN [ok |-> TRUE, token |-> FileToken]
    ELSE [ok |-> FALSE, token |-> <<>>]

(***************************************************************************)
(* api_request                                                             *)
(***************************************************************************)
\* what the server (or the transport) answers to one request
ResponseKinds == {"http_error", "url_error", "empty", "text", "json_object", "json_list"}
Response(kind, items) == [kind |-> kind, items |-> items]

\* the text of a ConvexApiError: method, path and the failure
ErrorText(method, path, detail) == [method |-> method, path |-> path, detail |-> detail]
ListPath == <<"deployments">>
DeletePath(name) == <<"delete">> \o name
UnexpectedResponse == ErrorText("", <<>>, "Unexpected response when listing deployments.")

\* api_request: raised = TRUE is a ConvexApiError; otherwise value is None for a
\* blank body, the parsed JSON, or the raw text when the body is not JSON
api_request(method, path, response) ==
    IF response.kind = "http_error"
    THEN [raised |-> TRUE, error |-> ErrorText(method, path, "http_error"),
          value |-> Response("empty", <<>>)]
    ELSE IF response.kind = "url_error"
    THEN [raised |-> TRUE, error |-> ErrorText(method, path, "url_error"),
          value |-> Response("empty", <<>>)]
    ELSE [raised |-> FALSE, error |-> ErrorText(method, path, "none"),
          value |-> response]

\* isinstance(data, list)
IsList(data) == data.kind = "json_list"

(***************************************************************************)
(* list_deployments                                                        *)
(***************************************************************************)
Deployment(name, deployment_type, region, is_default) ==
    [name |-> name, deployment_type |-> deployment_type,
     region |-> region, is_default |-> is_default]

\* IsWellFormed without the test on deploymentType
IsWellFormedNameOnly(item) ==
    /\ item.isDict
    /\ IsStr(Get(item.name))

\* whether the loop body reaches deployments.append for this item
IsWellFormed(item) ==
    /\ item.isDict
    /\ IsStr(Get(item.name))
    /\ IsStr(Get(item.deploymentType))

\* the Deployment built from a well-formed item
ParseItem(item) ==
    Deployment(Get(item.name).s,
               Get(item.deploymentType).s,
               IF IsStr(Get(item.region)) THEN Some(Get(item.region).s) ELSE None,
               Bool(Get(item.isDefault)))

\* the loop of list_deployments over data
RECURSIVE ParseItems(_)
ParseItems(data) ==
    IF data = <<>> THEN <<>>
    ELSE IF IsWellFormed(Head(data))
         THEN <<ParseItem(Head(data))>> \o ParseItems(Tail(data))
         ELSE ParseItems(Tail(data))

\* list_deployments taking an answer that is not a list for an empty listing
list_deployments_Lenient(response) ==
    LET r == api_request("GET", ListPath, response)
    IN  IF r.raised THEN [raised |-> TRUE, error |-> r.error, deployments |-> <<>>]
        ELSE [raised |-> FALSE, error |-> r.error, deployments |-> ParseItems(r.value.items)]

\* list_deployments: raised = TRUE is a ConvexApiError
list_deployments(response) ==
    LET r == api_request("GET", ListPath, response)
    IN  IF r.raised THEN [raised |-> TRUE, error |-> r.error, deployments |-> <<>>]
        ELSE IF ~IsList(r.value)
        THEN [raised |-> TRUE, error |-> UnexpectedResponse, deployments |-> <<>>]
        ELSE [raised |-> FALSE, error |-> r.error, deployments |-> ParseItems(r.value.items)]

(***************************************************************************)
(* re.compile and Pattern.search, for the patterns made of literal         *)
(* characters, an optional leading ^ and the unbalanced parenthesis        *)
(***************************************************************************)
NoPattern == [some |-> FALSE, anchored |-> FALSE, lit |-> <<>>]

\* re.compile raises re.error on an unbalanced parenthesis
IsMalformed(raw) == \E i \in 1..Len(raw) : raw[i] = "("

\* re.compile(raw), for a raw that is not malformed
Compile(raw) ==
    IF raw # <<>> /\ Head(raw) = "^"
    THEN [some |-> TRUE, anchored |-> TRUE, lit |-> Tail(raw)]
    ELSE [some |-> TRUE, anchored |-> FALSE, lit |-> raw]

MatchesAt(lit, name, i) ==
    /\ i + Len(lit) - 1 <= Len(name)
    /\ \A k \in 1..Len(lit) : name[i + k - 1] = lit[k]

\* name_pattern.search(name): a match anywhere, or at the start after ^
Search(pattern, name) ==
    IF pattern.anchored THEN MatchesAt(pattern.lit, name, 1)
    ELSE \E i \in 1..(Len(name) + 1) : MatchesAt(pattern.lit, name, i)

(***************************************************************************)
(* should_keep                                                             *)
(***************************************************************************)
\* should_keep without the exclusion of lines 238-239
should_keep_NoExclude(deployment, target_types, names_filter, exclude_filter, name_pattern, include_dev, include_prod) ==
    IF deployment.deployment_type \notin target_types THEN TRUE
    ELSE IF names_filter # {} /\ deployment.name \notin names_filter THEN TRUE
    ELSE IF name_pattern.some /\ ~Search(name_pattern, deployment.name) THEN TRUE
    ELSE IF deployment.deployment_type = Prod /\ ~include_prod THEN TRUE
    ELSE IF deployment.deployment_type = Dev /\ ~include_dev THEN TRUE
    ELSE FALSE

\* should_keep without the second opt-in of lines 244-248
should_keep_NoOptIn(deployment, target_types, names_filter, exclude_filter, name_pattern, include_dev, include_prod) ==
    IF deployment.deployment_type \notin target_types THEN TRUE
    ELSE IF names_filter # {} /\ deployment.name \notin names_filter THEN TRUE
    ELSE IF deployment.name \in exclude_filter THEN TRUE
    ELSE IF name_pattern.some /\ ~Search(name_pattern, deployment.name) THEN TRUE
    ELSE FALSE

\* should_keep with a guard on the default deployment
should_keep_KeepsDefault(deployment, target_types, names_filter, exclude_filter, name_pattern, include_dev, include_prod) ==
    IF deployment.is_default THEN TRUE
    ELSE IF deployment.deployment_type \notin target_types THEN TRUE
    ELSE IF names_filter # {} /\ deployment.name \notin names_filter THEN TRUE
    ELSE IF deployment.name \in exclude_filter THEN TRUE
    ELSE IF name_pattern.some /\ ~Search(name_pattern, deployment.name) THEN TRUE
    ELSE IF deployment.deployment_type = Prod /\ ~include_prod THEN TRUE
    ELSE IF deployment.deployment_type = Dev /\ ~include_dev THEN TRUE
    ELSE FALSE

should_keep(deployment, target_types, names_filter, exclude_filter, name_pattern, include_dev, include_prod) ==
    IF deployment.deployment_type \notin target_types THEN TRUE
    ELSE IF names_filter # {} /\ deployment.name \notin names_filter THEN TRUE
    ELSE IF deployment.name \in exclude_filter THEN TRUE
    ELSE IF name_pattern.some /\ ~Search(name_pattern, deployment.name) THEN TRUE
    ELSE IF deployment.deployment_type = Prod /\ ~include_prod THEN TRUE
    ELSE IF deployment.deployment_type = Dev /\ ~include_dev THEN TRUE
    ELSE FALSE

\* {name.strip() for name in names if name.strip()}
StripSet(names) ==
    {Strip(names[i]) : i \in {j \in 1..Len(names) : Strip(names[j]) # <<>>}}

(***************************************************************************)
(* confirm_or_exit                                                         *)
(***************************************************************************)
\* Confirmed comparing without regard to case
ConfirmedAnyCase(typed) == Lower(Strip(typed)) = Lower(DELETE)

\* TRUE when confirm_or_exit returns, FALSE when it raises SystemExit
Confirmed(typed) == Strip(typed) = DELETE

(***************************************************************************)
(* main: the state of one run                                              *)
(***************************************************************************)
VARIABLES
    pc,                 \* where main is
    args,               \* the namespace parse_args returns
    token,              \* load_token's result
    data,               \* the answer of the list collaborator
    deployments,        \* list_deployments' result
    names_filter, exclude_filter, name_pattern,
    delete_candidates,
    failed,             \* [(name, message)] of the delete loop
    i,                  \* the candidates the delete loop has gone through
    typed,              \* what the operator typed at the prompt
    list_calls,         \* requests sent to the list collaborator
    delete_calls,       \* names sent to the delete collaborator, in order
    delete_answers,     \* the answer to each of them
    stdout,             \* the report and the per-deletion lines
    exit                \* the process exit: [code, why]

vars == <<pc, args, token, data, deployments, names_filter, exclude_filter,
          name_pattern, delete_candidates, failed, i, typed, list_calls,
          delete_calls, delete_answers, stdout, exit>>

\* the inputs of the runs that are explored
MaxListing == 3

NameA == <<"a">>
NameB == <<"b">>
NameAB == <<"a", "b">>
Staging == <<"s", "t", "a", "g", "i", "n", "g">>

TypeArgs ==
    { <<>>,
      <<Preview, <<" ", "P", "r", "o", "d", " ">>>>,
      <<<<"D", "E", "V">>, Prod>>,
      <<Preview, Staging>> }
NameArgs == { <<>>, <<<<" ", "a", " ">>>>, <<<<" ">>>> }
ExcludeArgs == { <<>>, <<NameB>> }
MatchArgs == { None, Some(<<"a">>), Some(<<"(">>) }
TokenArgs == { None, Some(<<"k">>) }
EnvTokens == { None, Some(<<>>), Some(<<"k">>) }
SlugArgs == { None, Some(<<"s">>) }

ListedItems ==
    { JObject(JStr(NameA), JStr(Preview), JStr(<<"u", "s">>), JBool(TRUE)),
      JObject(JStr(NameB), JStr(Prod), JMissing, JBool(FALSE)),
      JObject(JStr(NameAB), JStr(Dev), JNum(1), JStr(<<"n", "o">>)),
      JObject(JMissing, JStr(Preview), JMissing, JMissing) }

RECURSIVE SeqsUpTo(_, _)
SeqsUpTo(S, n) ==
    IF n = 0 THEN {<<>>}
    ELSE LET shorter == SeqsUpTo(S, n - 1)
         IN  shorter \cup {Append(q, x) : q \in shorter, x \in S}

ListAnswers ==
    {Response(kind, <<>>) : kind \in ResponseKinds \ {"json_list"}}
        \cup {Response("json_list", items) : items \in SeqsUpTo(ListedItems, MaxListing)}
DeleteAnswers == {Response(kind, <<>>) : kind \in {"empty", "http_error", "url_error"}}

TypedResponses ==
    { DELETE,
      <<"d", "e", "l", "e", "t", "e">>,
      <<" ">> \o DELETE \o <<"\t">>,
      DELETE \o <<"!">>,
      <<"D", "E", " ", "L", "E", "T", "E">>,
      <<>> }

NoArgs ==
    [team |-> None, project |-> None, token |-> None, types |-> {},
     name |-> <<>>, match |-> None, exclude |-> <<>>,
     include_dev |-> FALSE, include_prod |-> FALSE, apply |-> FALSE, yes |-> FALSE]
NoReport == [printed |-> FALSE, mode |-> "", total |-> 0, candidates |-> 0, table |-> <<>>, lines |-> <<>>]
Running == [code |-> -1, why |-> "running"]
Exit(code, why) == [code |-> code, why |-> why]

Init ==
    /\ pc = "parse_args"
    /\ args = NoArgs
    /\ token = <<>>
    /\ data = Response("empty", <<>>)
    /\ deployments = <<>>
    /\ names_filter = {}
    /\ exclude_filter = {}
    /\ name_pattern = NoPattern
    /\ delete_candidates = <<>>
    /\ failed = <<>>
    /\ i = 0
    /\ typed = None
    /\ list_calls = 0
    /\ delete_calls = <<>>
    /\ delete_answers = <<>>
    /\ stdout = NoReport
    /\ exit = Running

\* a or b on two str | None
Or(a, b) == IF Truthy(a) THEN a ELSE b

\* parse_args accepting --yes on its own
ParseArgsAcceptsYesAlone ==
    /\ pc = "parse_args"
    /\ \E cli_team \in SlugArgs, env_team \in SlugArgs,
          cli_project \in SlugArgs, env_project \in SlugArgs,
          cli_token \in TokenArgs, types \in TypeArgs, name \in NameArgs,
          match \in MatchArgs, exclude \in ExcludeArgs,
          include_dev \in BOOLEAN, include_prod \in BOOLEAN,
          apply \in BOOLEAN, yes \in BOOLEAN :
        LET team == Or(cli_team, env_team)
            project == Or(cli_project, env_project)
            parsed == [team |-> team, project |-> project, token |-> cli_token,
                       types |-> {}, name |-> name, match |-> match,
                       exclude |-> exclude, include_dev |-> include_dev,
                       include_prod |-> include_prod, apply |-> apply, yes |-> yes]
            normalized == normalize_types(types)
        IN  IF ~Truthy(team) \/ ~Truthy(project)
            THEN /\ pc' = "done"
                 /\ exit' = Exit(2, "usage")
                 /\ args' = parsed
            ELSE IF ~normalized.ok
            THEN /\ pc' = "done"
                 /\ exit' = Exit(1, "invalid_type")
                 /\ args' = parsed
            ELSE /\ pc' = "load_token"
                 /\ exit' = exit
                 /\ args' = [parsed EXCEPT !.types = normalized.types]
    /\ UNCHANGED <<token, data, deployments, names_filter, exclude_filter,
                   name_pattern, delete_candidates, failed, i, typed, list_calls,
                   delete_calls, delete_answers, stdout>>

\* parse_args: the command line and the environment are the inputs
ParseArgs ==
    /\ pc = "parse_args"
    /\ \E cli_team \in SlugArgs, env_team \in SlugArgs,
          cli_project \in SlugArgs, env_project \in SlugArgs,
          cli_token \in TokenArgs, types \in TypeArgs, name \in NameArgs,
          match \in MatchArgs, exclude \in ExcludeArgs,
          include_dev \in BOOLEAN, include_prod \in BOOLEAN,
          apply \in BOOLEAN, yes \in BOOLEAN :
        LET team == Or(cli_team, env_team)
            project == Or(cli_project, env_project)
            parsed == [team |-> team, project |-> project, token |-> cli_token,
                       types |-> {}, name |-> name, match |-> match,
                       exclude |-> exclude, include_dev |-> include_dev,
                       include_prod |-> include_prod, apply |-> apply, yes |-> yes]
            normalized == normalize_types(types)
        IN  IF ~Truthy(team) \/ ~Truthy(project)
            THEN /\ pc' = "done"
                 /\ exit' = Exit(2, "usage")
                 /\ args' = parsed
            ELSE IF yes /\ ~apply
            THEN /\ pc' = "done"
                 /\ exit' = Exit(2, "usage")
                 /\ args' = parsed
            ELSE IF ~normalized.ok
            THEN /\ pc' = "done"
                 /\ exit' = Exit(1, "invalid_type")
                 /\ args' = parsed
            ELSE /\ pc' = "load_token"
                 /\ exit' = exit
                 /\ args' = [parsed EXCEPT !.types = normalized.types]
    /\ UNCHANGED <<token, data, deployments, names_filter, exclude_filter,
                   name_pattern, delete_candidates, failed, i, typed, list_calls,
                   delete_calls, delete_answers, stdout>>

\* main, line 293: token = load_token(args.token)
LoadToken ==
    /\ pc = "load_token"
    /\ \E env_token \in EnvTokens, config_file \in ConfigFiles :
        LET loaded == load_token(args.token, env_token, config_file)
        IN  IF loaded.ok
            THEN /\ token' = loaded.token
                 /\ pc' = "list"
                 /\ exit' = exit
            ELSE /\ token' = token
                 /\ pc' = "done"
                 /\ exit' = Exit(1, "no_token")
    /\ UNCHANGED <<args, data, deployments, names_filter, exclude_filter,
                   name_pattern, delete_candidates, failed, i, typed, list_calls,
                   delete_calls, delete_answers, stdout>>

\* main, lines 295-299: the one request to the list collaborator, answered by
\* one of answers
ListStep(answers) ==
    /\ pc = "list"
    /\ \E answer \in answers :
        LET listed == list_deployments(answer)
        IN  /\ data' = answer
            /\ list_calls' = list_calls + 1
            /\ IF listed.raised
               THEN /\ deployments' = deployments
                    /\ pc' = "done"
                    /\ exit' = Exit(1, "list_error")
               ELSE /\ deployments' = listed.deployments
                    /\ pc' = "filter"
                    /\ exit' = exit
    /\ UNCHANGED <<args, token, names_filter, exclude_filter, name_pattern,
                   delete_candidates, failed, i, typed, delete_calls,
                   delete_answers, stdout>>

ListDeployments == ListStep(ListAnswers)

\* [d for d in deployments if not should_keep(d, ...)]
Candidates(listed, target_types, names, excluded, pattern, include_dev, include_prod) ==
    SelectSeq(listed, LAMBDA d : ~should_keep(d, target_types, names, excluded, pattern, include_dev, include_prod))

\* render_table: one row per deployment
RenderRow(d) ==
    [name |-> d.name, type |-> d.deployment_type,
     region |-> IF Truthy(d.region) THEN d.region.s ELSE <<"-">>,
     default |-> IF d.is_default THEN "yes" ELSE "no"]
render_table(listed) == [k \in 1..Len(listed) |-> RenderRow(listed[k])]

\* main, lines 319-324: what the run prints before it branches
Report(apply, listed, candidates) ==
    [printed |-> TRUE,
     mode |-> IF apply THEN "APPLY" ELSE "DRY-RUN",
     total |-> Len(listed),
     candidates |-> Len(candidates),
     table |-> render_table(candidates),
     lines |-> <<>>]

\* Branch without the dry-run exit of lines 326-328
BranchWithoutDryRun(apply, yes, candidates) ==
    IF candidates = <<>> THEN [pc |-> "done", exit |-> Exit(0, "nothing_to_delete")]
    ELSE IF ~yes THEN [pc |-> "confirm", exit |-> Running]
    ELSE [pc |-> "delete", exit |-> Running]

\* Branch without the early return of lines 330-332
BranchWithoutEmptyCheck(apply, yes, candidates) ==
    IF ~apply THEN [pc |-> "done", exit |-> Exit(0, "dry_run")]
    ELSE IF ~yes THEN [pc |-> "confirm", exit |-> Running]
    ELSE [pc |-> "delete", exit |-> Running]

\* main, lines 326-335: where the run goes after the report
Branch(apply, yes, candidates) ==
    IF ~apply THEN [pc |-> "done", exit |-> Exit(0, "dry_run")]
    ELSE IF candidates = <<>> THEN [pc |-> "done", exit |-> Exit(0, "nothing_to_delete")]
    ELSE IF ~yes THEN [pc |-> "confirm", exit |-> Running]
    ELSE [pc |-> "delete", exit |-> Running]

\* main, lines 301-335: the filters (re.compile raises re.error on a malformed
\* --match, which nothing catches), the candidates, the report and the branch
FilterAndReport ==
    /\ pc = "filter"
    /\ names_filter' = StripSet(args.name)
    /\ exclude_filter' = StripSet(args.exclude)
    /\ IF Truthy(args.match) /\ IsMalformed(args.match.s)
       THEN /\ UNCHANGED <<name_pattern, delete_candidates, stdout>>
            /\ pc' = "done"
            /\ exit' = Exit(1, "invalid_regex")
       ELSE LET pattern == IF Truthy(args.match) THEN Compile(args.match.s) ELSE NoPattern
                candidates == Candidates(deployments, args.types, StripSet(args.name),
                                         StripSet(args.exclude), pattern,
                                         args.include_dev, args.include_prod)
                branch == Branch(args.apply, args.yes, candidates)
            IN  /\ name_pattern' = pattern
                /\ delete_candidates' = candidates
                /\ stdout' = Report(args.apply, deployments, candidates)
                /\ pc' = branch.pc
                /\ exit' = branch.exit
    /\ UNCHANGED <<args, token, data, deployments, failed, i, typed, list_calls,
                   delete_calls, delete_answers>>

\* confirm_or_exit: the operator types a line
Confirm ==
    /\ pc = "confirm"
    /\ \E response \in TypedResponses :
        /\ typed' = Some(response)
        /\ IF Confirmed(response)
           THEN pc' = "delete" /\ exit' = exit
           ELSE pc' = "done" /\ exit' = Exit(1, "aborted")
    /\ UNCHANGED <<args, token, data, deployments, names_filter, exclude_filter,
                   name_pattern, delete_candidates, failed, i, list_calls,
                   delete_calls, delete_answers, stdout>>

\* confirm_or_exit: the input stream is closed; input() raises EOFError,
\* which nothing catches
ConfirmEOF ==
    /\ pc = "confirm"
    /\ typed' = None
    /\ pc' = "done"
    /\ exit' = Exit(1, "eof")
    /\ UNCHANGED <<args, token, data, deployments, names_filter, exclude_filter,
                   name_pattern, delete_candidates, failed, i, list_calls,
                   delete_calls, delete_answers, stdout>>

\* delete_deployment: ok, or the text of the ConvexApiError
delete_deployment(name, answer) == api_request("POST", DeletePath(name), answer)

\* DeleteOne with the except clause outside the loop: the first failure ends it
DeleteOneHaltsOnFailure ==
    /\ pc = "delete"
    /\ i < Len(delete_candidates)
    /\ \E answer \in DeleteAnswers :
        LET deployment == delete_candidates[i + 1]
            result == delete_deployment(deployment.name, answer)
        IN  /\ delete_calls' = Append(delete_calls, deployment.name)
            /\ delete_answers' = Append(delete_answers, answer.kind)
            /\ IF result.raised
               THEN /\ failed' = Append(failed, <<deployment.name, result.error>>)
                    /\ stdout' = [stdout EXCEPT !.lines = Append(@, <<"failed", deployment.name>>)]
                    /\ i' = Len(delete_candidates)
               ELSE /\ failed' = failed
                    /\ stdout' = [stdout EXCEPT !.lines = Append(@, <<"deleted", deployment.name>>)]
                    /\ i' = i + 1
    /\ UNCHANGED <<pc, args, token, data, deployments, names_filter,
                   exclude_filter, name_pattern, delete_candidates, typed,
                   list_calls, exit>>

\* one iteration of the loop of main, lines 338-344
DeleteOne ==
    /\ pc = "delete"
    /\ i < Len(delete_candidates)
    /\ \E answer \in DeleteAnswers :
        LET deployment == delete_candidates[i + 1]
            result == delete_deployment(deployment.name, answer)
        IN  /\ delete_calls' = Append(delete_calls, deployment.name)
            /\ delete_answers' = Append(delete_answers, answer.kind)
            /\ IF result.raised
               THEN /\ failed' = Append(failed, <<deployment.name, result.error>>)
                    /\ stdout' = [stdout EXCEPT !.lines = Append(@, <<"failed", deployment.name>>)]
               ELSE /\ failed' = failed
                    /\ stdout' = [stdout EXCEPT !.lines = Append(@, <<"deleted", deployment.name>>)]
    /\ i' = i + 1
    /\ UNCHANGED <<pc, args, token, data, deployments, names_filter,
                   exclude_filter, name_pattern, delete_candidates, typed,
                   list_calls, exit>>

\* Finish reporting failure only when every delete failed
FinishFailsOnlyIfAllFailed ==
    /\ pc = "delete"
    /\ i = Len(delete_candidates)
    /\ pc' = "done"
    /\ exit' = IF Len(failed) = Len(delete_candidates)
               THEN Exit(1, "some_failed") ELSE Exit(0, "all_deleted")
    /\ UNCHANGED <<args, token, data, deployments, names_filter, exclude_filter,
                   name_pattern, delete_candidates, failed, i, typed, list_calls,
                   delete_calls, delete_answers, stdout>>

\* main, lines 346-353: the loop is over
Finish ==
    /\ pc = "delete"
    /\ i = Len(delete_candidates)
    /\ pc' = "done"
    /\ exit' = IF failed # <<>> THEN Exit(1, "some_failed") ELSE Exit(0, "all_deleted")
    /\ UNCHANGED <<args, token, data, deployments, names_filter, exclude_filter,
                   name_pattern, delete_candidates, failed, i, typed, list_calls,
                   delete_calls, delete_answers, stdout>>

Next ==
    \/ ParseArgs
    \/ LoadToken
    \/ ListDeployments
    \/ FilterAndReport
    \/ Confirm
    \/ ConfirmEOF
    \/ DeleteOne
    \/ Finish

Spec == Init /\ [][Next]_vars

(***************************************************************************)
(* list_deployments on the listings an evolving API may send: every shape  *)
(* of name, deploymentType, region and isDefault, in a run that deletes    *)
(* every preview deployment it is given (--apply --yes)                    *)
(***************************************************************************)
MaxRaw == 2

RawNames == {JMissing, JNum(7), JStr(NameA), JStr(NameB)}
RawTypes == {JMissing, JNum(1), JStr(Preview)}
RawRegions == {JMissing, JNum(0), JStr(<<"u", "s">>)}
RawDefaults == {JMissing, JNull, JBool(TRUE), JBool(FALSE), JNum(0), JNum(1),
                JStr(<<>>), JStr(<<"n", "o">>)}

RawItems ==
    {JNonObject}
        \cup {JObject(n, t, JMissing, JMissing) : n \in RawNames, t \in RawTypes}
        \cup {JObject(JStr(NameA), JStr(Preview), r, d) : r \in RawRegions, d \in RawDefaults}

RawAnswers == {Response("json_list", items) : items \in SeqsUpTo(RawItems, MaxRaw)}

InitParse ==
    /\ pc = "list"
    /\ args = [NoArgs EXCEPT !.team = Some(<<"s">>), !.project = Some(<<"s">>),
                             !.types = {Preview}, !.apply = TRUE, !.yes = TRUE]
    /\ token = <<"k">>
    /\ data = Response("empty", <<>>)
    /\ deployments = <<>>
    /\ names_filter = {}
    /\ exclude_filter = {}
    /\ name_pattern = NoPattern
    /\ delete_candidates = <<>>
    /\ failed = <<>>
    /\ i = 0
    /\ typed = None
    /\ list_calls = 0
    /\ delete_calls = <<>>
    /\ delete_answers = <<>>
    /\ stdout = NoReport
    /\ exit = Running

ListRaw == ListStep(RawAnswers)

NextParse ==
    \/ ListRaw
    \/ FilterAndReport
    \/ DeleteOne
    \/ Finish

SpecParse == InitParse /\ [][NextParse]_vars

(***************************************************************************)
(* should_keep on every deployment and every criteria                      *)
(***************************************************************************)
SelectNames == {NameA, NameB, NameAB}
SelectTypes == {Preview, Dev, Prod, Staging}
SelectDeployments ==
    {Deployment(n, t, None, d) : n \in SelectNames, t \in SelectTypes, d \in BOOLEAN}
SelectPatterns == {NoPattern, Compile(<<"a">>), Compile(<<"b">>), Compile(<<"^", "b">>)}

InitSelect ==
    /\ pc = "select"
    /\ \E types \in (SUBSET Allowed) \ {{}}, include_dev \in BOOLEAN, include_prod \in BOOLEAN :
          args = [NoArgs EXCEPT !.types = types, !.include_dev = include_dev,
                                !.include_prod = include_prod]
    /\ token = <<>>
    /\ data = Response("empty", <<>>)
    /\ deployments \in {<<d>> : d \in SelectDeployments}
    /\ names_filter \in SUBSET {NameA, NameB}
    /\ exclude_filter \in SUBSET {NameA, NameAB}
    /\ name_pattern \in SelectPatterns
    /\ delete_candidates = <<>>
    /\ failed = <<>>
    /\ i = 0
    /\ typed = None
    /\ list_calls = 0
    /\ delete_calls = <<>>
    /\ delete_answers = <<>>
    /\ stdout = NoReport
    /\ exit = Running

\* main, lines 305-317: the list comprehension over should_keep
Select ==
    /\ pc = "select"
    /\ delete_candidates' =
          Candidates(deployments, args.types, names_filter, exclude_filter,
                     name_pattern, args.include_dev, args.include_prod)
    /\ pc' = "selected"
    /\ UNCHANGED <<args, token, data, deployments, names_filter, exclude_filter,
                   name_pattern, failed, i, typed, list_calls, delete_calls,
                   delete_answers, stdout, exit>>

NextSelect == Select

SpecSelect == InitSelect /\ [][NextSelect]_vars

(***************************************************************************)
(* The requests one by one: a request is sent, then the collaborator       *)
(* answers it, and main does nothing in between (urlopen blocks).  The run *)
(* is the one of --apply on the types preview and prod, from the listing on *)
(***************************************************************************)
InitCalls ==
    /\ pc = "list"
    /\ \E yes \in BOOLEAN, include_prod \in BOOLEAN :
          args = [NoArgs EXCEPT !.team = Some(<<"s">>), !.project = Some(<<"s">>),
                                !.types = {Preview, Prod}, !.apply = TRUE,
                                !.yes = yes, !.include_prod = include_prod]
    /\ token = <<"k">>
    /\ data = Response("empty", <<>>)
    /\ deployments = <<>>
    /\ names_filter = {}
    /\ exclude_filter = {}
    /\ name_pattern = NoPattern
    /\ delete_candidates = <<>>
    /\ failed = <<>>
    /\ i = 0
    /\ typed = None
    /\ list_calls = 0
    /\ delete_calls = <<>>
    /\ delete_answers = <<>>
    /\ stdout = NoReport
    /\ exit = Running

\* list_deployments, lines 193-197: the GET request leaves
ListSend ==
    /\ pc = "list"
    /\ list_calls = 0
    /\ list_calls' = 1
    /\ UNCHANGED <<pc, args, token, data, deployments, names_filter,
                   exclude_filter, name_pattern, delete_candidates, failed, i,
                   typed, delete_calls, delete_answers, stdout, exit>>

\* list_deployments, lines 199-219, and main, lines 297-299: the answer to
\* the GET request is there
ListReturn ==
    /\ pc = "list"
    /\ list_calls = 1
    /\ \E answer \in ListAnswers :
        LET listed == list_deployments(answer)
        IN  /\ data' = answer
            /\ IF listed.raised
               THEN /\ deployments' = deployments
                    /\ pc' = "done"
                    /\ exit' = Exit(1, "list_error")
               ELSE /\ deployments' = listed.deployments
                    /\ pc' = "filter"
                    /\ exit' = exit
    /\ UNCHANGED <<args, token, names_filter, exclude_filter, name_pattern,
                   delete_candidates, failed, i, typed, list_calls,
                   delete_calls, delete_answers, stdout>>

\* DeleteSend sending the next request while one is still unanswered
DeleteSendWithoutWaiting ==
    /\ pc = "delete"
    /\ Len(delete_calls) < Len(delete_candidates)
    /\ delete_calls' = Append(delete_calls, delete_candidates[Len(delete_calls) + 1].name)
    /\ UNCHANGED <<pc, args, token, data, deployments, names_filter,
                   exclude_filter, name_pattern, delete_candidates, failed, i,
                   typed, list_calls, delete_answers, stdout, exit>>

\* main, line 340: the POST request for the next candidate leaves
DeleteSend ==
    /\ pc = "delete"
    /\ i < Len(delete_candidates)
    /\ Len(delete_calls) = i
    /\ delete_calls' = Append(delete_calls, delete_candidates[i + 1].name)
    /\ UNCHANGED <<pc, args, token, data, deployments, names_filter,
                   exclude_filter, name_pattern, delete_candidates, failed, i,
                   typed, list_calls, delete_answers, stdout, exit>>

\* DeleteReturn with the except clause outside the loop: a failure ends the run
DeleteReturnHaltsOnFailure ==
    /\ pc = "delete"
    /\ Len(delete_calls) = i + 1
    /\ \E answer \in DeleteAnswers :
        LET deployment == delete_candidates[i + 1]
            result == delete_deployment(deployment.name, answer)
        IN  /\ delete_answers' = Append(delete_answers, answer.kind)
            /\ IF result.raised
               THEN /\ failed' = Append(failed, <<deployment.name, result.error>>)
                    /\ stdout' = [stdout EXCEPT !.lines = Append(@, <<"failed", deployment.name>>)]
                    /\ pc' = "done"
                    /\ exit' = Exit(1, "some_failed")
               ELSE /\ failed' = failed
                    /\ stdout' = [stdout EXCEPT !.lines = Append(@, <<"deleted", deployment.name>>)]
                    /\ pc' = pc
                    /\ exit' = exit
    /\ i' = i + 1
    /\ UNCHANGED <<args, token, data, deployments, names_filter,
                   exclude_filter, name_pattern, delete_candidates, typed,
                   list_calls, delete_calls>>

\* main, lines 341-344: the POST request is answered, and the loop goes on
DeleteReturn ==
    /\ pc = "delete"
    /\ Len(delete_calls) = i + 1
    /\ \E answer \in DeleteAnswers :
        LET deployment == delete_candidates[i + 1]
            result == delete_deployment(deployment.name, answer)
        IN  /\ delete_answers' = Append(delete_answers, answer.kind)
            /\ IF result.raised
               THEN /\ failed' = Append(failed, <<deployment.name, result.error>>)
                    /\ stdout' = [stdout EXCEPT !.lines = Append(@, <<"failed", deployment.name>>)]
               ELSE /\ failed' = failed
                    /\ stdout' = [stdout EXCEPT !.lines = Append(@, <<"deleted", deployment.name>>)]
    /\ i' = i + 1
    /\ UNCHANGED <<pc, args, token, data, deployments, names_filter,
                   exclude_filter, name_pattern, delete_candidates, typed,
                   list_calls, delete_calls, exit>>

NextCalls ==
    \/ ListSend
    \/ ListReturn
    \/ FilterAndReport
    \/ Confirm
    \/ ConfirmEOF
    \/ DeleteSend
    \/ DeleteReturn
    \/ Finish

SpecCalls == InitCalls /\ [][NextCalls]_vars

\* every request is answered in the end, and main goes on whenever it can
FairSpecCalls ==
    /\ SpecCalls
    /\ WF_vars(DeleteSend)
    /\ WF_vars(DeleteReturn)
    /\ WF_vars(Finish)

(***************************************************************************)
(* --type against the deploymentType strings of the listing: runs given    *)
(* --team s --project s --token k --apply --yes and any --type values,     *)
(* on listings that hold types outside preview, dev, prod                  *)
(***************************************************************************)
NameBA == <<"b", "a">>
CapitalProd == <<"P", "r", "o", "d">>

TypeFlags ==
    TypeArgs \cup { <<Dev>>, <<Staging>>, <<CapitalProd>>, <<Prod, Dev, Preview>> }

TypedItems ==
    { JObject(JStr(NameA), JStr(Preview), JMissing, JMissing),
      JObject(JStr(NameB), JStr(Dev), JMissing, JMissing),
      JObject(JStr(NameAB), JStr(Staging), JMissing, JMissing),
      JObject(JStr(NameBA), JStr(CapitalProd), JMissing, JMissing) }

TypedAnswers == {Response("json_list", items) : items \in SeqsUpTo(TypedItems, MaxListing)}

\* parse_args on these command lines
ParseTypes ==
    /\ pc = "parse_args"
    /\ \E types \in TypeFlags, include_dev \in BOOLEAN, include_prod \in BOOLEAN :
        LET parsed == [NoArgs EXCEPT !.team = Some(<<"s">>), !.project = Some(<<"s">>),
                                     !.token = Some(<<"k">>),
                                     !.include_dev = include_dev,
                                     !.include_prod = include_prod,
                                     !.apply = TRUE, !.yes = TRUE]
            normalized == normalize_types(types)
        IN  IF ~normalized.ok
            THEN /\ pc' = "done"
                 /\ exit' = Exit(1, "invalid_type")
                 /\ args' = parsed
            ELSE /\ pc' = "load_token"
                 /\ exit' = exit
                 /\ args' = [parsed EXCEPT !.types = normalized.types]
    /\ UNCHANGED <<token, data, deployments, names_filter, exclude_filter,
                   name_pattern, delete_candidates, failed, i, typed, list_calls,
                   delete_calls, delete_answers, stdout>>

ListTyped == ListStep(TypedAnswers)

NextTypes ==
    \/ ParseTypes
    \/ LoadToken
    \/ ListTyped
    \/ FilterAndReport
    \/ DeleteOne
    \/ Finish

SpecTypes == Init /\ [][NextTypes]_vars

(***************************************************************************)
(* Properties                                                              *)
(***************************************************************************)
\* the names of the first n candidates, in the order of delete_candidates
CandidateNames(n) == [k \in 1..n |-> delete_candidates[k].name]
\* the run went through the delete loop and ended
DoneAfterDeleting == pc = "done" /\ delete_calls # <<>>

\* C1: in a dry run (--apply not given) nothing is ever sent to the delete
\* collaborator, whatever was listed and whatever the filters and the other
\* flags are; once the report is printed the run is over with exit 0, and a
\* dry run whose listing came back and whose filters were built always gets
\* there.
C1_DryRunNeverDeletes ==
    ~args.apply =>
        /\ delete_calls = <<>>
        /\ pc \notin {"confirm", "delete"}
        /\ stdout.printed => (pc = "done" /\ exit = Exit(0, "dry_run"))
        /\ (pc = "done" /\ list_calls = 1 /\ IsList(data)
                /\ ~(Truthy(args.match) /\ IsMalformed(args.match.s)))
              => (stdout.printed /\ exit.code = 0)

\* a dry run that reported candidates and ended
C1_Witness ==
    /\ ~args.apply
    /\ pc = "done"
    /\ stdout.printed
    /\ stdout.mode = "DRY-RUN"
    /\ stdout.candidates = 2
    /\ args.include_prod
    /\ exit.code = 0

\* C2 as stated: with --apply, candidates and no --yes, every typed line
\* other than exactly DELETE ends the run with a non-zero exit and no delete
\* call.
C2_ExactLiteralOnly ==
    (args.apply /\ ~args.yes /\ typed.some /\ typed.s # DELETE) =>
        /\ pc = "done"
        /\ exit.code # 0
        /\ delete_calls = <<>>

\* C2 amended: with --apply, candidates and no --yes, every typed line that
\* is not DELETE once its leading and trailing whitespace is removed ends the
\* run with exit 1 and no delete call; the comparison is case-sensitive.
C2_MismatchAfterStripAborts ==
    (args.apply /\ ~args.yes /\ typed.some /\ Strip(typed.s) # DELETE) =>
        /\ delete_candidates # <<>>
        /\ pc = "done"
        /\ exit = Exit(1, "aborted")
        /\ delete_calls = <<>>

\* the operator typed delete in lower case and the run ended
C2_Witness ==
    /\ args.apply /\ ~args.yes
    /\ typed = Some(<<"d", "e", "l", "e", "t", "e">>)
    /\ delete_candidates # <<>>
    /\ pc = "done"

\* C3: should_keep returns False for D (D is a candidate) exactly when the
\* six conditions hold together: the type is targeted, the names filter is
\* empty or has the name, the name is not excluded, the pattern is absent or
\* matches, prod needs include_prod, dev needs include_dev.
C3_CandidateIffSixConditions ==
    pc = "selected" =>
        LET D == deployments[1]
            all_six ==
                /\ D.deployment_type \in args.types
                /\ names_filter = {} \/ D.name \in names_filter
                /\ D.name \notin exclude_filter
                /\ ~name_pattern.some \/ Search(name_pattern, D.name)
                /\ D.deployment_type = Prod => args.include_prod
                /\ D.deployment_type = Dev => args.include_dev
        IN  /\ all_six => delete_candidates = <<D>>
            /\ ~all_six => delete_candidates = <<>>

\* a prod deployment that passes a names filter, an exclusion list and a
\* pattern and is selected
C3_Witness ==
    /\ pc = "selected"
    /\ delete_candidates # <<>>
    /\ deployments[1].deployment_type = Prod
    /\ names_filter # {}
    /\ exclude_filter # {}
    /\ name_pattern.some

\* C4: every deployment sent to the delete collaborator of type prod was
\* sent with include_prod set, and every one of type dev with include_dev
\* set, whatever the targeted types and the other filters and flags are.
C4_ProdAndDevNeedOptIn ==
    \A k \in 1..Len(delete_calls) :
        /\ k <= Len(delete_candidates)
        /\ delete_candidates[k].name = delete_calls[k]
        /\ \E j \in 1..Len(deployments) : deployments[j] = delete_candidates[k]
        /\ delete_candidates[k].deployment_type = Prod => args.include_prod
        /\ delete_candidates[k].deployment_type = Dev => args.include_dev

\* prod and dev are both targeted and listed, only dev is opted in, and the
\* run deleted
C4_Witness ==
    /\ pc = "done"
    /\ args.types = {Dev, Prod}
    /\ ~args.include_prod /\ args.include_dev
    /\ \E j \in 1..Len(deployments) : deployments[j].deployment_type = Prod
    /\ delete_calls = <<NameAB>>

\* C5: in the delete loop and after it, the delete collaborator has been
\* called once for each candidate gone through, in order, whether the calls
\* failed or not; when the loop ends every candidate has been gone through.
C5_EveryCandidateAttempted ==
    (pc = "delete" \/ DoneAfterDeleting) =>
        /\ i <= Len(delete_candidates)
        /\ delete_calls = CandidateNames(i)
        /\ Len(delete_answers) = i
        /\ pc = "done" => i = Len(delete_candidates)

\* three candidates, the second delete failed, the other two went through
C5_Witness ==
    /\ pc = "done"
    /\ Len(delete_candidates) = 3
    /\ delete_answers = <<"empty", "http_error", "empty">>
    /\ Len(delete_calls) = 3

\* the exits raised by a configuration error: an invalid --type, no usable
\* token, a malformed --match
ConfigurationErrors == {"invalid_type", "no_token", "invalid_regex"}

\* C6: a run that ends with a configuration error has called neither the list
\* collaborator nor the delete collaborator.
C6_ConfigErrorsBeforeNetwork ==
    (pc = "done" /\ exit.why \in ConfigurationErrors) =>
        /\ list_calls = 0
        /\ delete_calls = <<>>

\* the delete calls that failed, as (name, message), in the order of the calls
RECURSIVE FailuresOf(_, _)
FailuresOf(names, answers) ==
    IF names = <<>> THEN <<>>
    ELSE LET rest == FailuresOf(Tail(names), Tail(answers))
         IN  IF Head(answers) \in {"http_error", "url_error"}
             THEN <<<<Head(names), ErrorText("POST", DeletePath(Head(names)), Head(answers))>>>> \o rest
             ELSE rest

\* C7: when the run ends after the delete loop, failed holds exactly the
\* names of the candidates whose delete call failed, each with its message,
\* in the order of the attempts; the exit code is 1 if failed is not empty
\* and 0 if it is.
C7_FailuresAndExitCode ==
    DoneAfterDeleting =>
        /\ failed = FailuresOf(delete_calls, delete_answers)
        /\ exit.code \in {0, 1}
        /\ exit.code = 1 <=> failed # <<>>
        /\ exit.code = 0 <=> \A k \in 1..Len(delete_answers) : delete_answers[k] = "empty"

\* three attempts, the first and the last failed, exit 1
C7_Witness ==
    /\ pc = "done"
    /\ delete_answers = <<"http_error", "empty", "http_error">>
    /\ Len(failed) = 2
    /\ failed[1][1] = delete_candidates[1].name
    /\ failed[2][1] = delete_candidates[3].name
    /\ exit.code = 1

\* exits taken before the list collaborator is called
ExitsBeforeListing == {"usage", "invalid_type", "no_token"}

\* C8: the list collaborator is called at most once in a run, and exactly
\* once in every run that gets past the token; when its answer is an error or
\* is not a list, the run ends with exit 1, with no listing, no candidates, no
\* report and no delete call.
C8_ListOnceAndFatal ==
    /\ list_calls <= 1
    /\ list_calls = 1 <=>
          (pc \in {"filter", "confirm", "delete"}
              \/ (pc = "done" /\ exit.why \notin ExitsBeforeListing))
    /\ (list_calls = 1 /\ data.kind # "json_list") =>
          /\ pc = "done"
          /\ exit = Exit(1, "list_error")
          /\ deployments = <<>>
          /\ delete_candidates = <<>>
          /\ ~stdout.printed
          /\ delete_calls = <<>>

\* the list collaborator answered a JSON object and the run ended with exit 1
C8_Witness ==
    /\ pc = "done"
    /\ list_calls = 1
    /\ data.kind = "json_object"
    /\ args.apply /\ args.yes
    /\ exit.code = 1

\* the items of the listing that are objects with a string name and a string
\* deploymentType
HasStringNameAndType(item) ==
    item.isDict /\ item.name.t = "str" /\ item.deploymentType.t = "str"
Kept(items) == SelectSeq(items, HasStringNameAndType)

\* C9: the Deployment parsed from a record has is_default false whenever the
\* record's isDefault is missing or is not a boolean, and no region whenever
\* the record's region is not a string.
C9_DefaultsForNonBooleanAndNonString ==
    (pc # "list" /\ IsList(data)) =>
        \A k \in 1..Len(deployments) :
            /\ k <= Len(Kept(data.items))
            /\ Kept(data.items)[k].isDefault.t # "bool" => ~deployments[k].is_default
            /\ Kept(data.items)[k].region.t # "str" => deployments[k].region = None

\* C10: a record without a string name or a string deploymentType is dropped
\* and the run goes on: the parsed listing is the other records in their
\* order, the total printed counts only them, the candidates are among them,
\* and only their names reach the delete collaborator.
C10_MalformedRecordsDropped ==
    (pc # "list" /\ IsList(data)) =>
        LET kept == Kept(data.items)
        IN  /\ exit.why # "list_error"
            /\ Len(deployments) = Len(kept)
            /\ \A k \in 1..Len(kept) :
                  /\ deployments[k].name = kept[k].name.s
                  /\ deployments[k].deployment_type = kept[k].deploymentType.s
            /\ stdout.printed => stdout.total = Len(kept)
            /\ \A k \in 1..Len(delete_candidates) :
                  \E j \in 1..Len(kept) : delete_candidates[k].name = kept[j].name.s
            /\ Len(delete_calls) <= Len(kept)
            /\ \A k \in 1..Len(delete_calls) : delete_calls[k] = kept[k].name.s

\* a record named b without a deploymentType came before a well-formed one
\* named a: only a was counted and deleted
C10_Witness ==
    /\ pc = "done"
    /\ IsList(data)
    /\ Len(data.items) = 2
    /\ data.items[1] = JObject(JStr(NameB), JMissing, JMissing, JMissing)
    /\ stdout.total = 1
    /\ delete_calls = <<NameA>>

\* C11: with --apply, when the filters leave no candidate the run ends right
\* after the report with exit 0: the operator is never prompted and nothing is
\* sent to the delete collaborator.
C11_ApplyWithNoCandidates ==
    (args.apply /\ stdout.printed /\ delete_candidates = <<>>) =>
        /\ pc = "done"
        /\ exit = Exit(0, "nothing_to_delete")
        /\ typed = None
        /\ delete_calls = <<>>
        /\ stdout.lines = <<>>

\* --apply without --yes on a listing of two deployments none of which is
\* selected
C11_Witness ==
    /\ args.apply /\ ~args.yes
    /\ stdout.printed
    /\ stdout.total = 2
    /\ stdout.candidates = 0
    /\ delete_candidates = <<>>
    /\ pc = "done"
    /\ exit.code = 0

\* the listed deployments should_keep does not keep, in the order of the listing
Selected ==
    SelectSeq(deployments,
              LAMBDA d : ~should_keep(d, args.types, names_filter, exclude_filter,
                                      name_pattern, args.include_dev, args.include_prod))
\* the requests sent and not answered yet
InFlight ==
    (IF pc = "list" /\ list_calls = 1 THEN 1 ELSE 0)
        + (Len(delete_calls) - Len(delete_answers))

\* C12: the names sent to the delete collaborator are the names of the
\* listed deployments the selector selects, in the order of the listing (all
\* of them once the loop is over), and at most one request is unanswered at
\* any time: the delete request for the next candidate leaves only when the
\* one before has been answered.
C12_ListingOrderOneAtATime ==
    /\ Len(delete_calls) <= Len(Selected)
    /\ \A k \in 1..Len(delete_calls) : delete_calls[k] = Selected[k].name
    /\ DoneAfterDeleting => Len(delete_calls) = Len(Selected)
    /\ InFlight \in {0, 1}
    /\ Len(delete_answers) <= Len(delete_calls)
    /\ Len(delete_calls) <= Len(delete_answers) + 1

\* b (prod), ab (dev) and a (preview) were listed in this order; b then a
\* were deleted, and the request for a is not answered yet
C12_Witness ==
    /\ pc = "delete"
    /\ Len(deployments) = 3
    /\ deployments[1].name = NameB
    /\ deployments[2].name = NameAB
    /\ deployments[3].name = NameA
    /\ delete_calls = <<NameB, NameA>>
    /\ Len(delete_answers) = 1

\* C14: once the delete loop has begun the run always ends, provided every
\* request is answered, and it ends with as many delete attempts as there are
\* candidates, each answered.
C14_LoopCompletes ==
    /\ (pc = "delete") ~> (pc = "done")
    /\ [](DoneAfterDeleting =>
            /\ Len(delete_calls) = Len(delete_candidates)
            /\ Len(delete_answers) = Len(delete_candidates)
            /\ exit.why \in {"all_deleted", "some_failed"})

\* the operator confirmed, the first of three deletes failed and the run
\* ended after the third
C14_Witness ==
    /\ pc = "done"
    /\ typed = Some(DELETE)
    /\ Len(delete_candidates) = 3
    /\ delete_answers = <<"url_error", "empty", "empty">>
    /\ Len(delete_calls) = 3

\* the same deployments with every is_default flipped
FlipDefault(listed) == [k \in 1..Len(listed) |-> [listed[k] EXCEPT !.is_default = ~@]]
NamesOf(listed) == [k \in 1..Len(listed) |-> listed[k].name]
\* the six conditions of the selector on deployment D under the current criteria
MeetsAllSix(D) ==
    /\ D.deployment_type \in args.types
    /\ names_filter = {} \/ D.name \in names_filter
    /\ D.name \notin exclude_filter
    /\ ~name_pattern.some \/ Search(name_pattern, D.name)
    /\ D.deployment_type = Prod => args.include_prod
    /\ D.deployment_type = Dev => args.include_dev

\* C13: is_default has no part in the selection: under any criteria the
\* listing with is_default flipped gives the same verdict of should_keep and
\* the same candidates by name, hence the same delete calls; a default
\* deployment that meets the six conditions is selected.
C13_DefaultFlagIgnored ==
    pc = "selected" =>
        LET D == deployments[1]
            twin == FlipDefault(deployments)
            twin_candidates ==
                Candidates(twin, args.types, names_filter, exclude_filter,
                           name_pattern, args.include_dev, args.include_prod)
        IN  /\ twin[1].is_default # D.is_default
            /\ should_keep(twin[1], args.types, names_filter, exclude_filter,
                           name_pattern, args.include_dev, args.include_prod)
                  = (delete_candidates = <<>>)
            /\ NamesOf(twin_candidates) = NamesOf(delete_candidates)
            /\ (D.is_default /\ MeetsAllSix(D)) => delete_candidates = <<D>>

\* a default preview deployment was selected
C13_Witness ==
    /\ pc = "selected"
    /\ deployments[1].is_default
    /\ deployments[1].deployment_type = Preview
    /\ delete_candidates = deployments

\* C15: when at least one --name value is supplied, every name passed to the
\* delete collaborator is one of the supplied values after trimming.
C15_NameAlwaysRestricts ==
    args.name # <<>> =>
        \A k \in 1..Len(delete_calls) :
            \E j \in 1..Len(args.name) : delete_calls[k] = Strip(args.name[j])

\* C16: a run given --yes without --apply ends in parse_args with a usage
\* error, before the token is loaded and before any call to the list or the
\* delete collaborator; every run at or past the listing has yes => apply.
C16_YesRequiresApply ==
    /\ (args.yes /\ ~args.apply) =>
          /\ pc = "done"
          /\ exit = Exit(2, "usage")
          /\ token = <<>>
          /\ list_calls = 0
          /\ delete_calls = <<>>
    /\ (pc \in {"list", "filter", "confirm", "delete"} \/ list_calls > 0) =>
          (args.yes => args.apply)

\* --yes without --apply, team and project given, was rejected
C16_Witness ==
    /\ pc = "done"
    /\ args.yes /\ ~args.apply
    /\ Truthy(args.team) /\ Truthy(args.project)
    /\ exit = Exit(2, "usage")

\* the listed deployments whose type is none of preview, dev, prod
OtherTyped == {k \in 1..Len(deployments) : deployments[k].deployment_type \notin Allowed}

\* C17: the accepted target types are a non-empty subset of preview, dev,
\* prod, {preview} when --type is not given; a listed deployment of any other
\* type string (the capitalised Prod included) is parsed and counted in the
\* total printed, and is neither a candidate nor sent to the delete
\* collaborator.
C17_OtherTypesNeverSelected ==
    /\ normalize_types(<<>>) = [ok |-> TRUE, types |-> {Preview}]
    /\ (pc # "parse_args" /\ exit.why # "invalid_type") =>
          args.types # {} /\ args.types \subseteq Allowed
    /\ (pc # "list" /\ IsList(data)) =>
          /\ Len(deployments) = Len(data.items)
          /\ \A k \in 1..Len(deployments) :
                deployments[k].deployment_type = data.items[k].deploymentType.s
    /\ stdout.printed => stdout.total = Len(deployments)
    /\ \A k \in 1..Len(delete_candidates) :
          delete_candidates[k].deployment_type \in Allowed
    /\ \A k \in OtherTyped :
          \A c \in 1..Len(delete_calls) : delete_calls[c] # deployments[k].name

\* prod was targeted with --include-prod, the listing held a staging and a
\* capitalised Prod deployment beside a deletable one, and the run deleted
\* only the latter
C17_Witness ==
    /\ pc = "done"
    /\ exit = Exit(0, "all_deleted")
    /\ Prod \in args.types /\ args.include_prod
    /\ \E a, b \in OtherTyped :
          /\ deployments[a].deployment_type = Staging
          /\ deployments[b].deployment_type = CapitalProd
    /\ stdout.total = 3
    /\ Len(delete_calls) = 1

====
